---- MODULE Spec2Model ----
(***************************************************************************)
(* UserController of jwt-tutorial (src/src/controllers/user.controller.ts) *)
(* as a state machine: the user store, the tokens issued so far, the       *)
(* clock, and the position of each concurrent request that is suspended at *)
(* an await.  The collaborators the controller is injected with (the       *)
(* validator, the password hasher, the user service, the token service,    *)
(* the authentication guard and the user repository) are modelled from     *)
(* their contracts in spec.md.                                             *)
(***************************************************************************)
EXTENDS Integers, Sequences, FiniteSets, TLC

VARIABLES store, nextId, issued, now, pc, local, started, last

vars == <<store, nextId, issued, now, pc, local, started, last>>

\* ------------------------------------------------------------------ bounds
\* State-changing calls (signup, login, replaceById, deleteById) ever started.
MaxCalls == 3
\* The clock runs from 0 to MaxTime.
MaxTime == 2

\* Requests in flight at the same time.
Procs == {1, 2}

\* --------------------------------------------------------------- data model
PermissionKeys == {"AuthFeatures", "GetBlogs", "UserBasic", "UserManagement"}

DefaultPermissions == {"AuthFeatures", "GetBlogs"}

AdminPermissions == {"AuthFeatures", "UserBasic", "UserManagement"}

BasicPermissions == {"AuthFeatures", "UserBasic"}

\* Strings are tuples of characters.
EmailLower == <<"a", "@", "b">>
EmailUpper == <<"A", "@", "b">>
EmailRoot == <<"r", "@", "b">>
EmailMalformed == <<"a", "b">>

\* The emails a signup request carries, and those a login request carries.
SignupEmails == {EmailLower, EmailUpper, EmailMalformed}

LoginEmails == {EmailUpper, EmailRoot}

Lower(c) == IF c = "A" THEN "a" ELSE IF c = "R" THEN "r" ELSE c

\* Case normalisation of an email address.
Normalize(e) == [i \in DOMAIN e |-> Lower(e[i])]

\* A password-field value: a caller's plaintext, or the output of the hasher
\* for a plaintext.
Plain(t) == [kind |-> "plain", text |-> t]

PasswordShort == <<"a", "b", "c">>
PasswordOne == <<"S", "t", "r", "0", "n", "g", "!", "P">>
PasswordTwo == <<"l", "e", "t", "m", "e", "i", "n", "1">>

SignupPasswords == {Plain(PasswordShort), Plain(PasswordOne)}

LoginPasswords == {Plain(PasswordOne), Plain(PasswordTwo)}

EmptyString == Plain(<<>>)

\* ------------------------------------------------------------- collaborators
MinPasswordLength == 8

\* isemail: one "@", with a local part before it and a domain after it.
IsEmail(e) ==
    /\ Cardinality({i \in DOMAIN e : e[i] = "@"}) = 1
    /\ e[1] # "@"
    /\ e[Len(e)] # "@"

\* validateCredentials: TRUE when it returns, FALSE when it throws.
validateCredentials(credentials) ==
    /\ IsEmail(credentials.email)
    /\ Len(credentials.password.text) >= MinPasswordLength

\* BcryptHasher.hashPassword: a one-way transform of the plaintext.  The salt is
\* left out: verification recomputes with the salt the hash embeds.
hashPassword(password) == [kind |-> "bcrypt", text |-> password.text]

\* BcryptHasher.comparePassword: false for any mismatch or malformed hash.
comparePassword(provided, stored) ==
    /\ stored.kind = "bcrypt"
    /\ stored.text = provided.text

IsHash(password) == password.kind = "bcrypt"

\* The subject identifier of a record: its id as a string.
IdString(id) == ToString(id)

\* MyUserService.convertToUserProfile
convertToUserProfile(user) ==
    [securityId |-> IdString(user.id), permissions |-> user.permissions]

TokenTTL == 1

\* JWTService.generateToken: the claims, the expiry and the signature.
generateToken(userProfile, t) ==
    [sub |-> userProfile.securityId,
     permissions |-> userProfile.permissions,
     exp |-> t + TokenTTL,
     sig |-> "valid"]

\* A token that was not signed with the secret.
ForgedToken ==
    [sub |-> "1", permissions |-> PermissionKeys, exp |-> MaxTime + TokenTTL,
     sig |-> "forged"]

\* JWTService.verifyToken: the outcome for a token at time t.
verifyToken(token, t) ==
    IF token.sig # "valid" THEN "TokenInvalid"
    ELSE IF t > token.exp THEN "TokenExpired"
    ELSE "TokenVerified"

\* The guard in front of a protected operation; bearer is the set holding the
\* presented token, empty when none is presented.
Guard(required, bearer, t) ==
    IF bearer = {} THEN "MissingToken"
    ELSE LET token == CHOOSE x \in bearer : TRUE
             verified == verifyToken(token, t)
         IN  IF verified # "TokenVerified" THEN verified
             ELSE IF (required \cap token.permissions) = required THEN "Allowed"
             ELSE "InsufficientPermission"

\* The user store: the records whose email is exactly e.
WithEmail(s, e) == {i \in DOMAIN s : s[i].email = e}

\* MyUserService.verifyCredentials: the ids of the records it may return.
verifyCredentials(s, credentials) ==
    {i \in DOMAIN s :
        /\ s[i].email = Normalize(credentials.email)
        /\ comparePassword(credentials.password, s[i].password)}

\* ---------------------------------------------------------------- controller
ProtectedOps == {"count", "find", "findById", "replaceById", "deleteById", "me"}

UserManagementOps == {"find", "findById", "replaceById", "deleteById"}

RequiredWeakened(op) ==
    CASE op = "count" -> {"UserBasic"}
      [] op = "find" -> {"UserBasic"}
      [] op = "findById" -> {"UserManagement"}
      [] op = "replaceById" -> {"UserManagement"}
      [] op = "deleteById" -> {"UserManagement"}
      [] op = "me" -> {"AuthFeatures"}

\* The required set each @authenticate decorator declares.
Required(op) ==
    CASE op = "count" -> {"UserBasic"}
      [] op = "find" -> {"UserManagement"}
      [] op = "findById" -> {"UserManagement"}
      [] op = "replaceById" -> {"UserManagement"}
      [] op = "deleteById" -> {"UserManagement"}
      [] op = "me" -> {"AuthFeatures"}

\* The permissions field of a signup request: absent ({}) or supplied ({S}).
RequestedPermissions == {{}, {{}}, {{"UserManagement", "UserBasic"}}}

SignupValidationSkipped(userData) == TRUE

\* signup, line 66: validateCredentials on the picked email and password.
SignupValidationPasses(userData) ==
    validateCredentials([email |-> userData.email, password |-> userData.password])

SignupAssignKeep(userData) ==
    [userData EXCEPT !.permissions =
        IF userData.permissions = {} THEN DefaultPermissions
        ELSE CHOOSE s \in userData.permissions : TRUE]

SignupAssignMerge(userData) ==
    [userData EXCEPT !.permissions =
        DefaultPermissions \cup UNION userData.permissions]

\* signup, lines 67-70: the permissions are overwritten with the defaults.
SignupAssign(userData) ==
    [userData EXCEPT !.permissions = DefaultPermissions]

SignupReturnedAsStored(newUser) == newUser

\* signup, lines 74-76: the returned instance with its password cleared.
SignupReturned(newUser) == [newUser EXCEPT !.password = EmptyString]

LoginProfileDefaults(user) ==
    [convertToUserProfile(user) EXCEPT !.permissions = DefaultPermissions]

LoginProfileStale(user) ==
    [convertToUserProfile(user) EXCEPT !.permissions = {}]

\* login, lines 100-101: the profile, with the record's permissions.
LoginProfile(user) ==
    [convertToUserProfile(user) EXCEPT !.permissions = user.permissions]

MeResultClearedFirst(currentUser) ==
    [id |-> "", securityId |-> "", permissions |-> currentUser.permissions]

\* me, lines 199-201: id takes the security id, which is then cleared.
MeResult(currentUser) ==
    [id |-> currentUser.securityId,
     securityId |-> "",
     permissions |-> currentUser.permissions]

\* The profile the guard injects as CURRENT_USER.
CurrentUser(token) == [securityId |-> token.sub, permissions |-> token.permissions]

\* What a caller may present as bearer token.
Bearers == {{}} \cup {{i.token} : i \in issued} \cup {{ForgedToken}}

\* A new request takes the lowest free slot.
Free(p) == pc[p] = "idle" /\ \A q \in Procs : q < p => pc[q] # "idle"

NoLocal == [kind |-> "none"]

NoResult == <<>>

\* The observable outcome of the step just taken.
Outcome(op, proc, outcome, bearer, input, result, calls, ran, changed) ==
    [op |-> op, proc |-> proc, outcome |-> outcome, bearer |-> bearer,
     input |-> input, result |-> result, calls |-> calls, ran |-> ran,
     changed |-> changed]

\* ------------------------------------------------------------------- states
SeedAdmin ==
    (1 :> [id |-> 1, email |-> EmailRoot, password |-> hashPassword(Plain(PasswordOne)),
           permissions |-> AdminPermissions])

SeedBasic ==
    (1 :> [id |-> 1, email |-> EmailRoot, password |-> hashPassword(Plain(PasswordOne)),
           permissions |-> BasicPermissions])

SeedEmpty == <<>>

InitWith(seeds) ==
    /\ store \in seeds
    /\ nextId = Len(store) + 1
    /\ issued = {}
    /\ now = 0
    /\ pc = [p \in Procs |-> "idle"]
    /\ local = [p \in Procs |-> NoLocal]
    /\ started = 0
    /\ last = Outcome("init", 1, "none", {}, NoResult, NoResult, {}, FALSE, FALSE)

Init == InitWith({SeedEmpty, SeedAdmin})

InitNoAdmin == InitWith({SeedEmpty, SeedBasic})

\* signup, lines 66-71, up to the await on hashPassword.
SignupBegin(p) ==
    /\ Free(p)
    /\ \E email \in SignupEmails, password \in SignupPasswords :
        LET input == [email |-> email, password |-> password]
        IN  IF SignupValidationPasses(input)
            THEN /\ started < MaxCalls
                 /\ started' = started + 1
                 /\ pc' = [pc EXCEPT ![p] = "signup_hash"]
                 /\ \E perms \in RequestedPermissions :
                      local' = [local EXCEPT ![p] =
                        [userData |-> SignupAssign([email |-> email, password |-> password,
                                                    permissions |-> perms]),
                         requested |-> perms]]
                 /\ last' = Outcome("signup.begin", p, "Pending", {}, input, NoResult,
                                    {"validateCredentials", "hashPassword"}, FALSE, FALSE)
            ELSE /\ last' = Outcome("signup", p, "ValidationError", {}, input, NoResult,
                                    {"validateCredentials"}, FALSE, FALSE)
                 /\ UNCHANGED <<pc, local, started>>
    /\ UNCHANGED <<store, nextId, issued, now>>

\* signup, lines 71-76: the hash resolves, the store creates the record (or
\* refuses it on its unique index on email), and the instance is returned.
SignupCreate(p) ==
    /\ pc[p] = "signup_hash"
    /\ LET userData == [local[p].userData EXCEPT
                            !.password = hashPassword(local[p].userData.password)]
           input == [email |-> userData.email, password |-> local[p].userData.password,
                     requested |-> local[p].requested]
       IN  IF WithEmail(store, userData.email) # {}
           THEN /\ last' = Outcome("signup", p, "DuplicateEmail", {}, input, NoResult,
                                   {"create"}, FALSE, FALSE)
                /\ UNCHANGED <<store, nextId>>
           ELSE LET newUser == [id |-> nextId, email |-> userData.email,
                                password |-> userData.password,
                                permissions |-> userData.permissions]
                IN  /\ store' = (nextId :> newUser) @@ store
                    /\ nextId' = nextId + 1
                    /\ last' = Outcome("signup", p, "ok", {}, input,
                                       SignupReturned(newUser), {"create"}, FALSE, TRUE)
    /\ pc' = [pc EXCEPT ![p] = "idle"]
    /\ local' = [local EXCEPT ![p] = NoLocal]
    /\ UNCHANGED <<issued, now, started>>

\* login, line 99: verifyCredentials.
LoginVerify(p) ==
    /\ Free(p)
    /\ \E email \in LoginEmails, password \in LoginPasswords :
        LET credentials == [email |-> email, password |-> password]
            found == verifyCredentials(store, credentials)
        IN  IF found = {}
            THEN /\ last' = Outcome("login", p, "InvalidCredentials", {}, credentials,
                                    NoResult, {"verifyCredentials"}, FALSE, FALSE)
                 /\ UNCHANGED <<pc, local, started>>
            ELSE /\ started < MaxCalls
                 /\ started' = started + 1
                 /\ \E i \in found :
                      /\ local' = [local EXCEPT ![p] = [user |-> store[i]]]
                      /\ last' = Outcome("login.verify", p, "Pending", {}, credentials,
                                         store[i], {"verifyCredentials"}, FALSE, FALSE)
                 /\ pc' = [pc EXCEPT ![p] = "login_token"]
    /\ UNCHANGED <<store, nextId, issued, now>>

\* login, lines 100-103: the profile and the token.
LoginIssue(p) ==
    /\ pc[p] = "login_token"
    /\ LET user == local[p].user
           jwt == generateToken(LoginProfile(user), now)
       IN  /\ issued' = issued \cup {[token |-> jwt, snapshot |-> user.permissions]}
           /\ last' = Outcome("login", p, "ok", {}, user, jwt,
                              {"convertToUserProfile", "generateToken"}, FALSE, FALSE)
    /\ pc' = [pc EXCEPT ![p] = "idle"]
    /\ local' = [local EXCEPT ![p] = NoLocal]
    /\ UNCHANGED <<store, nextId, now, started>>

\* A protected call that only reads: the guard, then the body.
ReadCall(op, bearer, input, result) ==
    LET decision == Guard(Required(op), bearer, now)
    IN  /\ last' = IF decision = "Allowed"
                   THEN Outcome(op, 1, "Allowed", bearer, input, result, {op}, TRUE, FALSE)
                   ELSE Outcome(op, 1, decision, bearer, NoResult, NoResult, {}, FALSE, FALSE)
        /\ UNCHANGED <<store, nextId, issued, now, pc, local, started>>

\* count, lines 107-120.
Count ==
    \E bearer \in Bearers :
        ReadCall("count", bearer, NoResult, Cardinality(DOMAIN store))

\* find, lines 122-142.
Find ==
    \E bearer \in Bearers :
        ReadCall("find", bearer, NoResult, {store[i] : i \in DOMAIN store})

\* findById, lines 144-162.
FindById ==
    \E bearer \in Bearers :
        IF Guard(Required("findById"), bearer, now) # "Allowed"
        THEN ReadCall("findById", bearer, NoResult, NoResult)
        ELSE \E id \in 1..(nextId - 1) :
                ReadCall("findById", bearer, id,
                         IF id \in DOMAIN store THEN {store[id]} ELSE {})

\* me, lines 192-202.
Me ==
    \E bearer \in Bearers :
        IF Guard(Required("me"), bearer, now) # "Allowed"
        THEN ReadCall("me", bearer, NoResult, NoResult)
        ELSE ReadCall("me", bearer, NoResult,
                      MeResult(CurrentUser(CHOOSE token \in bearer : TRUE)))

\* What a caller of replaceById sends for record id: the record as it is with
\* one field changed, or a new record when there is none.
ReplaceBodies(id) ==
    IF id \in DOMAIN store
    THEN LET user == [email |-> store[id].email, password |-> store[id].password,
                      permissions |-> store[id].permissions]
         IN  {[user EXCEPT !.email = EmailLower],
              [user EXCEPT !.password = Plain(PasswordTwo)],
              [user EXCEPT !.permissions = BasicPermissions],
              [user EXCEPT !.permissions = AdminPermissions]}
    ELSE {[email |-> EmailLower, password |-> Plain(PasswordTwo),
           permissions |-> BasicPermissions]}

\* replaceById, lines 164-177.
ReplaceById ==
    \E bearer \in Bearers :
        LET decision == Guard(Required("replaceById"), bearer, now)
        IN  /\ IF decision # "Allowed"
               THEN /\ last' = Outcome("replaceById", 1, decision, bearer, NoResult,
                                       NoResult, {}, FALSE, FALSE)
                    /\ UNCHANGED <<store, started>>
               ELSE \E id \in 1..(nextId - 1) : \E user \in ReplaceBodies(id) :
                    IF id \notin DOMAIN store
                    THEN /\ last' = Outcome("replaceById", 1, "Allowed", bearer,
                                            [id |-> id, user |-> user], "EntityNotFound",
                                            {"replaceById"}, TRUE, FALSE)
                         /\ UNCHANGED <<store, started>>
                    ELSE IF WithEmail(store, user.email) \ {id} # {}
                    THEN /\ last' = Outcome("replaceById", 1, "Allowed", bearer,
                                            [id |-> id, user |-> user], "DuplicateEmail",
                                            {"replaceById"}, TRUE, FALSE)
                         /\ UNCHANGED <<store, started>>
                    ELSE /\ started < MaxCalls
                         /\ started' = started + 1
                         /\ store' = [store EXCEPT ![id] =
                                [id |-> id, email |-> user.email,
                                 password |-> user.password,
                                 permissions |-> user.permissions]]
                         /\ last' = Outcome("replaceById", 1, "Allowed", bearer,
                                            [id |-> id, user |-> user], "ok",
                                            {"replaceById"}, TRUE, store' # store)
            /\ UNCHANGED <<nextId, issued, now, pc, local>>

\* deleteById, lines 180-190.
DeleteById ==
    \E bearer \in Bearers :
        LET decision == Guard(Required("deleteById"), bearer, now)
        IN  /\ IF decision # "Allowed"
               THEN /\ last' = Outcome("deleteById", 1, decision, bearer, NoResult,
                                       NoResult, {}, FALSE, FALSE)
                    /\ UNCHANGED <<store, started>>
               ELSE \E id \in 1..(nextId - 1) :
                    IF id \notin DOMAIN store
                    THEN /\ last' = Outcome("deleteById", 1, "Allowed", bearer, id,
                                            "EntityNotFound", {"deleteById"}, TRUE, FALSE)
                         /\ UNCHANGED <<store, started>>
                    ELSE /\ started < MaxCalls
                         /\ started' = started + 1
                         /\ store' = [i \in DOMAIN store \ {id} |-> store[i]]
                         /\ last' = Outcome("deleteById", 1, "Allowed", bearer, id,
                                            "ok", {"deleteById"}, TRUE, TRUE)
            /\ UNCHANGED <<nextId, issued, now, pc, local>>

\* Time passes.
Tick ==
    /\ now < MaxTime
    /\ now' = now + 1
    /\ last' = Outcome("tick", 1, "none", {}, NoResult, NoResult, {}, FALSE, FALSE)
    /\ UNCHANGED <<store, nextId, issued, pc, local, started>>

Next ==
    \/ \E p \in Procs : SignupBegin(p)
    \/ \E p \in Procs : SignupCreate(p)
    \/ \E p \in Procs : LoginVerify(p)
    \/ \E p \in Procs : LoginIssue(p)
    \/ Count
    \/ Find
    \/ FindById
    \/ ReplaceById
    \/ DeleteById
    \/ Me
    \/ Tick

Spec == Init /\ [][Next]_vars

SpecNoAdmin == InitNoAdmin /\ [][Next]_vars

\* ------------------------------------------------------------------ claims

\* C1: every signup that succeeds writes and returns a record whose permissions
\* are exactly {AuthFeatures, GetBlogs}, whatever permissions the request carried.
SignupPermissionsFixed ==
    (last.op = "signup" /\ last.outcome = "ok") =>
        /\ last.result.permissions = {"AuthFeatures", "GetBlogs"}
        /\ last.result.id \in DOMAIN store
        /\ store[last.result.id].permissions = {"AuthFeatures", "GetBlogs"}

\* A signup that asked for UserManagement and UserBasic has succeeded.
SignupAskedForManagement ==
    /\ last.op = "signup"
    /\ last.outcome = "ok"
    /\ last.input.requested = {{"UserManagement", "UserBasic"}}

\* C2: a protected call ends Allowed and runs its body iff the presented token
\* verifies and holds every permission the operation declares (count: UserBasic;
\* me: AuthFeatures; the others: UserManagement); otherwise it ends Denied and
\* neither the body nor any store access runs.
GuardDecidesProtectedCalls ==
    last.op \in {"count", "find", "findById", "replaceById", "deleteById", "me"} =>
        LET required == IF last.op = "count" THEN {"UserBasic"}
                        ELSE IF last.op = "me" THEN {"AuthFeatures"}
                        ELSE {"UserManagement"}
            permitted == \E token \in last.bearer :
                            /\ verifyToken(token, now) = "TokenVerified"
                            /\ required \subseteq token.permissions
        IN  /\ (last.outcome = "Allowed") <=> permitted
            /\ last.ran <=> permitted
            /\ ~permitted =>
                /\ last.outcome \in {"MissingToken", "TokenInvalid", "TokenExpired",
                                     "InsufficientPermission"}
                /\ last.calls = {}
                /\ ~last.changed

\* A verified token without UserManagement was refused by find.
FindRefusedForPermission ==
    /\ last.op = "find"
    /\ last.outcome = "InsufficientPermission"
    /\ \E token \in last.bearer : verifyToken(token, now) = "TokenVerified"

\* C3: a signup whose email or password the validator rejects fails with
\* ValidationError before hashPassword or create is called and leaves the store
\* unchanged; only validated credentials ever wait on the hasher.
ValidationBeforeHashing ==
    /\ (/\ last.op \in {"signup", "signup.begin"}
        /\ ~validateCredentials([email |-> last.input.email,
                                 password |-> last.input.password])) =>
            /\ last.outcome = "ValidationError"
            /\ "hashPassword" \notin last.calls
            /\ "create" \notin last.calls
            /\ ~last.changed
            /\ pc[last.proc] = "idle"
    /\ \A p \in Procs :
        pc[p] = "signup_hash" =>
            validateCredentials([email |-> local[p].userData.email,
                                 password |-> local[p].userData.password])

\* A signup was rejected by the validator.
SignupRejectedByValidator ==
    /\ last.op = "signup"
    /\ last.outcome = "ValidationError"
    /\ Len(last.input.password.text) < 8

\* C4: the password field of every stored record is a hash produced by the
\* hasher, never a caller-supplied plaintext.
StoredPasswordsAreHashes ==
    \A i \in DOMAIN store : IsHash(store[i].password)

\* C5: the token of a successful login carries exactly the permissions of the
\* record verifyCredentials returned, and its subject identifies that record;
\* the record returned is the stored record at that moment.
LoginClaimsMatchRecord ==
    /\ (last.op = "login.verify" /\ last.outcome = "Pending") =>
        /\ last.result.id \in DOMAIN store
        /\ store[last.result.id] = last.result
        /\ local[last.proc].user = last.result
    /\ \A p \in Procs :
        pc[p] = "login_token" =>
            \E i \in 1..(nextId - 1) : local[p].user.id = i
    /\ (last.op = "login" /\ last.outcome = "ok") =>
        /\ last.result.permissions = last.input.permissions
        /\ last.result.sub = IdString(last.input.id)
        /\ last.result.sig = "valid"

\* A login has succeeded for a record whose permissions were replaced between
\* verifyCredentials and generateToken.
LoginOverlappedReplace ==
    /\ last.op = "login"
    /\ last.outcome = "ok"
    /\ last.input.id \in DOMAIN store
    /\ store[last.input.id].permissions # last.result.permissions

\* C6: no two stored records have the same case-normalized email.
UniqueNormalizedEmails ==
    \A i, j \in DOMAIN store :
        i # j => Normalize(store[i].email) # Normalize(store[j].email)

\* C7: a successful signup returns the record with its password equal to the
\* empty string while the stored record keeps the hash.
SignupReturnsClearedPassword ==
    (last.op = "signup" /\ last.outcome = "ok") =>
        /\ last.result.password = EmptyString
        /\ last.result.id \in DOMAIN store
        /\ store[last.result.id].password = hashPassword(last.input.password)
        /\ store[last.result.id].password # EmptyString

\* A signup has succeeded and its record is stored under the returned id.
SignupStoredHash ==
    /\ last.op = "signup"
    /\ last.outcome = "ok"
    /\ last.result.id \in DOMAIN store
    /\ IsHash(store[last.result.id].password)

\* C8: an allowed call of me returns the claims' subject as id, the security id
\* cleared to the empty string, and the claims' permissions.
MeReturnsSubjectAsId ==
    (last.op = "me" /\ last.outcome = "Allowed") =>
        \E token \in last.bearer :
            /\ last.result.id = token.sub
            /\ last.result.id # ""
            /\ last.result.securityId = ""
            /\ last.result.permissions = token.permissions

\* A call of me was allowed.
MeAllowed ==
    /\ last.op = "me"
    /\ last.outcome = "Allowed"
    /\ last.ran

\* C9: until it expires, a token issued by login is allowed or denied by every
\* protected operation as the permissions of its record at issuance decide,
\* whatever replaceById and deleteById have done to the record since.
TokenIsSnapshot ==
    \A i \in issued :
        (/\ last.op \in ProtectedOps
         /\ last.bearer = {i.token}
         /\ now <= i.token.exp) =>
            ((last.outcome = "Allowed") <=> (Required(last.op) \subseteq i.snapshot))

\* A protected call was allowed for a token whose record has since been
\* deleted or given other permissions.
AllowedAfterRecordChanged ==
    /\ last.op \in {"count", "find", "findById", "me"}
    /\ last.outcome = "Allowed"
    /\ \E i \in issued :
        /\ last.bearer = {i.token}
        /\ \E id \in 1..(nextId - 1) :
            /\ IdString(id) = i.token.sub
            /\ \/ id \notin DOMAIN store
               \/ store[id].permissions # i.snapshot

====
